---------------------------- MODULE Spec2Model ----------------------------
(***************************************************************************)
(* jv: an interactive terminal browser for a JSON document.                *)
(*                                                                         *)
(* The model follows src/model.go (Model, NewModel, Update, updateKV,      *)
(* View), the helpers of src/unnamed/part_000 (readJsonStdin, getKAny,     *)
(* getVal, getInitialKV) and main of src/main.go.  The host runtime        *)
(* (bubbletea) calls Init once, then View, then for every message Update   *)
(* followed by View; the paginator (bubbles/paginator) is modelled at the  *)
(* places model.go calls it.                                               *)
(***************************************************************************)
EXTENDS Integers, Sequences, FiniteSets, TLC

VARIABLES
    stdin,      \* what the process reads from its standard input
    Data,       \* Model.Data: the parsed document
    isNil,      \* TRUE when NewModel returned nil
    CurrC,      \* Model.CurrC: the cursor
    CurrKV,     \* Model.CurrKV: the current list of key-value pairs
    Path,       \* Model.Path
    Page,       \* Model.Page: the paginator
    pc,         \* "start", "view", "update", "quit" or "panic"
    fault,      \* the run-time error that ended the program, or "none"
    calls,      \* the methods the host has invoked on the model so far
    win,        \* the slice bounds of the last render
    lastEv,     \* the last message handled by Update
    snap,       \* Path and CurrKV as they were before the last enabled descend
    prev        \* CurrC and Path as they were when Update was last entered

vars == <<stdin, Data, isNil, CurrC, CurrKV, Path, Page, pc, fault, calls, win, lastEv, snap, prev>>

----------------------------------------------------------------------------
(* Bounds of the model *)

\* longest array among the generated documents
MaxArrLen == 3
\* largest page size a resize event yields
MaxPerPage == 2

\* model.go:75  m.Page.PerPage = msg.Height - 5
HeaderLines == 5

----------------------------------------------------------------------------
(* JSON text, as the document the loader is given *)

JNull == [t |-> "null", str |-> "", num |-> 0, bool |-> FALSE, keys |-> <<>>, vals |-> <<>>]
JStr(s) == [JNull EXCEPT !.t = "string", !.str = s]
JNum(n) == [JNull EXCEPT !.t = "number", !.num = n]
JBool(b) == [JNull EXCEPT !.t = "bool", !.bool = b]
JObj(ks, vs) == [JNull EXCEPT !.t = "object", !.keys = ks, !.vals = vs]
JArr(vs) == [JNull EXCEPT !.t = "array", !.vals = vs]

\* the array [1, 2, ..., n]
JNumArr(n) == JArr([i \in 1..n |-> JNum(i)])

Documents ==
    { JObj(<<"a", "b">>, <<JStr("x"), JObj(<<"c">>, <<JNum(1)>>)>>),
      JObj(<<"a", "b">>, <<JStr("{}"), JStr("[]")>>),
      JObj(<<"a", "b", "e">>, <<JStr("x"), JBool(TRUE), JObj(<<>>, <<>>)>>),
      JArr(<<JObj(<<"k">>, <<JNull>>), JArr(<<JBool(FALSE)>>), JStr("[]")>>),
      JStr("hello"), JNum(1), JNull, JBool(TRUE),
      JObj(<<>>, <<>>) }
    \cup { JObj(<<"a">>, <<JNumArr(n)>>) : n \in 0..MaxArrLen }
    \cup { JNumArr(n) : n \in 0..MaxArrLen }

\* standard input: well-formed JSON text, or text json.Unmarshal rejects
Inputs ==
    { [wellFormed |-> TRUE, json |-> d] : d \in Documents }
    \cup { [wellFormed |-> FALSE, json |-> JNull] }

----------------------------------------------------------------------------
(* Go values of type any, as json.Unmarshal produces them *)

GoNil == [t |-> "nil", str |-> "", num |-> 0, bool |-> FALSE, keys |-> <<>>, vals |-> <<>>]

RECURSIVE Unmarshal(_)
Unmarshal(j) ==
    CASE j.t = "null" -> GoNil
      [] j.t = "string" -> [GoNil EXCEPT !.t = "string", !.str = j.str]
      [] j.t = "number" -> [GoNil EXCEPT !.t = "float64", !.num = j.num]
      [] j.t = "bool" -> [GoNil EXCEPT !.t = "bool", !.bool = j.bool]
      [] j.t = "object" ->
            [GoNil EXCEPT !.t = "map", !.keys = j.keys,
                          !.vals = [i \in 1..Len(j.vals) |-> Unmarshal(j.vals[i])]]
      [] j.t = "array" ->
            [GoNil EXCEPT !.t = "slice",
                          !.vals = [i \in 1..Len(j.vals) |-> Unmarshal(j.vals[i])]]

readJsonStdin(in) ==
    IF in.wellFormed
    THEN [err |-> FALSE, data |-> Unmarshal(in.json)]
    ELSE [err |-> TRUE, data |-> GoNil]

Digit(d) ==
    CASE d = 0 -> "0" [] d = 1 -> "1" [] d = 2 -> "2" [] d = 3 -> "3" [] d = 4 -> "4"
      [] d = 5 -> "5" [] d = 6 -> "6" [] d = 7 -> "7" [] d = 8 -> "8" [] d = 9 -> "9"

\* fmt.Sprintf("%d", i) for i >= 0
RECURSIVE FormatInt(_)
FormatInt(i) ==
    IF i < 10 THEN Digit(i) ELSE FormatInt(i \div 10) \o Digit(i % 10)

\* fmt.Sprintf("%f", f) for a float64 holding the whole number n >= 0
FormatFloat(n) == FormatInt(n) \o ".000000"

\* a Go map[string]any: nil, or a set of keys with the value at each
NilMap == [isNil |-> TRUE, ks |-> {}, get |-> <<>>]

getKAny(o) ==
    IF o.t = "map"
    THEN [isNil |-> FALSE,
          ks |-> {o.keys[i] : i \in 1..Len(o.keys)},
          get |-> [k \in {o.keys[i] : i \in 1..Len(o.keys)} |->
                     o.vals[CHOOSE i \in 1..Len(o.keys) : o.keys[i] = k]]]
    ELSE IF o.t = "slice"
    THEN [isNil |-> FALSE,
          ks |-> {FormatInt(i - 1) : i \in 1..Len(o.vals)},
          get |-> [k \in {FormatInt(i - 1) : i \in 1..Len(o.vals)} |->
                     o.vals[CHOOSE i \in 1..Len(o.vals) : FormatInt(i - 1) = k]]]
    ELSE NilMap

\* tempMap[k]: a missing key, or any key of a nil map, yields nil
MapIndex(m, k) == IF k \in m.ks THEN m.get[k] ELSE GoNil

getVal(o) ==
    CASE o.t = "string" -> o.str
      [] o.t = "int" -> FormatInt(o.num)
      [] o.t = "float64" -> FormatFloat(o.num)
      [] o.t = "bool" -> (IF o.bool THEN "true" ELSE "false")
      [] o.t = "map" -> "{}"
      [] o.t = "slice" -> "[]"
      [] OTHER -> ""

\* a range loop that may visit a key twice and skip another
RangeOrders_MayRepeat(m) == [1..Cardinality(m.ks) -> m.ks]

\* the orders in which `for k, v := range m` may visit the keys of a map
RangeOrders(m) ==
    { ord \in [1..Cardinality(m.ks) -> m.ks] :
        \A i, j \in 1..Cardinality(m.ks) : i # j => ord[i] # ord[j] }

\* the lists the two range loops (getInitialKV, updateKV) can build from m
RangeKV(m) ==
    { [i \in 1..Cardinality(m.ks) |-> [Key |-> ord[i], Value |-> getVal(m.get[ord[i]])]] :
        ord \in RangeOrders(m) }

getInitialKV(o) ==
    LET m == getKAny(o)
    IN  IF ~m.isNil THEN RangeKV(m) ELSE {<<>>}

\* the loop of updateKV over the path, from tempMap
RECURSIVE WalkPath(_, _)
WalkPath(tempMap, path) ==
    IF path = <<>> THEN tempMap
    ELSE WalkPath(getKAny(MapIndex(tempMap, Head(path))), Tail(path))

\* a rebuild that forgets the path and always lists the root
updateKV_IgnoresPath(data, path) == getInitialKV(data)

\* the values updateKV can leave in CurrKV
updateKV(data, path) ==
    IF Len(path) = 0
    THEN getInitialKV(data)
    ELSE LET tempMap == getKAny(data)
         IN  IF ~tempMap.isNil THEN RangeKV(WalkPath(tempMap, path)) ELSE {<<>>}

----------------------------------------------------------------------------
(* Go integer arithmetic: division truncates toward zero *)

Abs(a) == IF a < 0 THEN -a ELSE a
GoDiv(a, b) ==
    IF (a < 0) = (b < 0) THEN Abs(a) \div Abs(b) ELSE -(Abs(a) \div Abs(b))
GoMod(a, b) == a - b * GoDiv(a, b)
Min(a, b) == IF a < b THEN a ELSE b

----------------------------------------------------------------------------
(* The paginator, as model.go uses it *)

\* page.New(): model.go:51
PageNew == [Page |-> 0, PerPage |-> 1, TotalPages |-> 1]

\* m.Page.SetTotalPages(items): model.go:55, 131, 145.  Dividing by a zero
\* PerPage is a run-time panic.
SetTotalPages(p, items) ==
    IF items < 1 THEN [panic |-> FALSE, page |-> p]
    ELSE IF p.PerPage = 0 THEN [panic |-> TRUE, page |-> p]
    ELSE LET n == GoDiv(items, p.PerPage)
         IN  [panic |-> FALSE,
              page |-> [p EXCEPT !.TotalPages =
                            IF GoMod(items, p.PerPage) > 0 THEN n + 1 ELSE n]]

\* m.Page.GetSliceBounds(len(items)): model.go:202
GetSliceBounds(p, length) ==
    [start |-> p.Page * p.PerPage,
     end |-> Min(p.Page * p.PerPage + p.PerPage, length)]

\* m.Page.PrevPage(): model.go:204
PrevPage(p) == IF p.Page > 0 THEN [p EXCEPT !.Page = p.Page - 1] ELSE p

\* m.Page.NextPage(): model.go:207; it does nothing on the last page
NextPage(p) ==
    IF p.Page # p.TotalPages - 1 THEN [p EXCEPT !.Page = p.Page + 1] ELSE p

----------------------------------------------------------------------------
(* Construction *)

RightGlyph == "→"
LeftGlyph == "←"

\* the cursor NewModel builds and enter/x restore
HomeCursor == [RowNo |-> 0, IsKey |-> TRUE, IsEnd |-> FALSE, CursorDisplay |-> RightGlyph]

NoModel ==
    [isNil |-> TRUE, Data |-> GoNil, CurrC |-> HomeCursor, CurrKV |-> <<>>,
     Path |-> <<>>, Page |-> PageNew]

\* the results NewModel can return for an input: nil, or a model whose rows
\* are in one of the orders the range loop of getInitialKV can produce
NewModel(in) ==
    LET r == readJsonStdin(in)
    IN  IF r.err THEN {NoModel}
        ELSE { IF Len(kvpairs) = 0 THEN NoModel
               ELSE [isNil |-> FALSE, Data |-> r.data, CurrC |-> HomeCursor,
                     CurrKV |-> kvpairs, Path |-> <<>>,
                     Page |-> SetTotalPages(PageNew, Len(kvpairs)).page] :
               kvpairs \in getInitialKV(r.data) }

NoSnap == [Path |-> <<>>, CurrKV |-> <<>>]
NoWin == [start |-> 0, end |-> 0]
NoPrev == [CurrC |-> HomeCursor, Path |-> <<>>]

\* main has evaluated NewModel() and handed the result to tea.NewProgram
Init ==
    \E in \in Inputs :
      \E m \in NewModel(in) :
        /\ stdin = in
        /\ isNil = m.isNil
        /\ Data = m.Data
        /\ CurrC = m.CurrC
        /\ CurrKV = m.CurrKV
        /\ Path = m.Path
        /\ Page = m.Page
        /\ pc = "start"
        /\ fault = "none"
        /\ calls = {}
        /\ win = NoWin
        /\ lastEv = "none"
        /\ snap = NoSnap
        /\ prev = NoPrev

----------------------------------------------------------------------------
(* The host: Start calls Init, renders, then handles messages *)

\* control passes on without a run-time error
Goto(next) == pc' = next /\ fault' = fault

\* a run-time panic ends the program
Crash(err) == pc' = "panic" /\ fault' = err

\* main: tea.NewProgram(NewModel()).Start() calls the model's Init, which
\* touches no field of the receiver
Start ==
    /\ pc = "start"
    /\ calls' = calls \cup {"Init"}
    /\ pc' = "view"
    /\ UNCHANGED <<stdin, Data, isNil, CurrC, CurrKV, Path, Page, fault, win, lastEv, snap, prev>>

\* items[start:end] is in range
SliceOk(b, length) == 0 <= b.start /\ b.start <= b.end /\ b.end <= length

\* the paginator after the two page corrections of View
ViewPage(p, b, rowNo) ==
    LET p1 == IF rowNo < b.start THEN PrevPage(p) ELSE p
    IN  IF rowNo > b.end THEN NextPage(p1) ELSE p1

\* Model.View: on a nil receiver reading m.Path panics
View ==
    /\ pc = "view"
    /\ calls' = calls \cup {"View"}
    /\ IF isNil
       THEN /\ Crash("nil pointer dereference")
            /\ UNCHANGED <<Page, win>>
       ELSE LET b == GetSliceBounds(Page, Len(CurrKV))
            IN  /\ win' = b
                /\ Page' = ViewPage(Page, b, CurrC.RowNo)
                /\ IF SliceOk(b, Len(CurrKV))
                   THEN Goto(IF lastEv = "quit" THEN "quit" ELSE "update")
                   ELSE Crash("slice bounds out of range")
    /\ UNCHANGED <<stdin, Data, isNil, CurrC, CurrKV, Path, lastEv, snap, prev>>

\* a message is delivered to Update
Deliver(ev) ==
    /\ pc = "update"
    /\ calls' = calls \cup {"Update"}
    /\ lastEv' = ev
    /\ prev' = [CurrC |-> CurrC, Path |-> Path]
    /\ UNCHANGED <<stdin, Data, isNil>>

\* the terminal heights a resize message carries
Heights == {0} \cup ((HeaderLines - 1)..(HeaderLines + MaxPerPage))

\* case tea.WindowSizeMsg
Resize ==
    \E h \in Heights :
      /\ Deliver("resize")
      /\ Page' = [Page EXCEPT !.PerPage = h - HeaderLines]
      /\ Goto("view")
      /\ snap' = NoSnap
      /\ UNCHANGED <<CurrC, CurrKV, Path, win>>

\* case "ctrl+c": Update returns tea.Quit; the host renders once more and
\* then leaves its loop
Quit ==
    /\ Deliver("quit")
    /\ Goto("view")
    /\ snap' = NoSnap
    /\ UNCHANGED <<CurrC, CurrKV, Path, Page, win>>

\* a reset that leaves IsEnd as it was
ToKey_KeepsIsEnd(c) == [c EXCEPT !.IsKey = TRUE, !.CursorDisplay = RightGlyph]

\* the three assignments that end the up, down and left cases
ToKey(c) == [c EXCEPT !.IsKey = TRUE, !.IsEnd = FALSE, !.CursorDisplay = RightGlyph]

\* an up case without the test against the first row
MoveUp_NoFirstRowTest(c) == ToKey([c EXCEPT !.RowNo = @ - 1])

\* the cursor after the up case
MoveUp(c) == ToKey([c EXCEPT !.RowNo = IF @ > 0 THEN @ - 1 ELSE @])

\* a down case that moves the row and leaves the focus where it was
MoveDown_KeepsFocus(c, n) == [c EXCEPT !.RowNo = IF @ < n - 1 THEN @ + 1 ELSE @]

\* a down case without the test against the last row
MoveDown_NoLastRowTest(c, n) == [c EXCEPT !.RowNo = @ + 1]

\* the cursor after the down case, over a list of n rows
MoveDown(c, n) == ToKey([c EXCEPT !.RowNo = IF @ < n - 1 THEN @ + 1 ELSE @])

\* case "up"
Up ==
    /\ Deliver("up")
    /\ CurrC' = MoveUp(CurrC)
    /\ Goto("view")
    /\ snap' = NoSnap
    /\ UNCHANGED <<CurrKV, Path, Page, win>>

\* case "down"
Down ==
    /\ Deliver("down")
    /\ CurrC' = MoveDown(CurrC, Len(CurrKV))
    /\ Goto("view")
    /\ snap' = NoSnap
    /\ UNCHANGED <<CurrKV, Path, Page, win>>

\* a left case that also reloads the rows
Left_ReloadsRows ==
    /\ Deliver("left")
    /\ CurrC' = ToKey(CurrC)
    /\ Goto("view")
    /\ snap' = NoSnap
    /\ CurrKV' \in updateKV(Data, Path)
    /\ UNCHANGED <<Path, Page, win>>

\* case "left"
Left ==
    /\ Deliver("left")
    /\ CurrC' = ToKey(CurrC)
    /\ Goto("view")
    /\ snap' = NoSnap
    /\ UNCHANGED <<CurrKV, Path, Page, win>>

\* m.CurrKV[m.CurrC.RowNo] is in range
RowInRange == 0 <= CurrC.RowNo /\ CurrC.RowNo < Len(CurrKV)

\* the row under the cursor
CurrRow == CurrKV[CurrC.RowNo + 1]

\* the test of the right case: the value is an end value
IsEndValue(v) == v # "{}" /\ v # "[]"

\* a right case that leaves the glyph as it was
FocusValue_KeepsGlyph(c, v) == [c EXCEPT !.IsKey = FALSE, !.IsEnd = IsEndValue(v)]

\* the cursor after the right case found the row under it
FocusValue(c, v) ==
    IF IsEndValue(v)
    THEN [c EXCEPT !.IsKey = FALSE, !.IsEnd = TRUE, !.CursorDisplay = LeftGlyph]
    ELSE [c EXCEPT !.IsKey = FALSE, !.IsEnd = FALSE, !.CursorDisplay = RightGlyph]

\* case "right": IsKey is cleared before the row is read, and reading a row
\* of an empty list panics
Right ==
    /\ Deliver("right")
    /\ snap' = NoSnap
    /\ IF ~CurrC.IsKey
       THEN /\ Goto("view")
            /\ UNCHANGED CurrC
       ELSE IF ~RowInRange
       THEN /\ CurrC' = [CurrC EXCEPT !.IsKey = FALSE]
            /\ Crash("index out of range")
       ELSE /\ CurrC' = FocusValue(CurrC, CurrRow.Value)
            /\ Goto("view")
    /\ UNCHANGED <<CurrKV, Path, Page, win>>

\* a guard that descends from any value, end value or not
CanDescend_IgnoresIsEnd(c) == ~c.IsKey

\* the guard of the enter case
CanDescend(c) == ~c.IsKey /\ ~c.IsEnd

\* the path the enter case builds
PushKey(path, key) == Append(path, key)

\* the path the x case builds
PopKey(path) == IF Len(path) > 0 THEN SubSeq(path, 1, Len(path) - 1) ELSE path

\* a rebuild that leaves the cursor where it was
Rebuild_KeepsCursor(newPath) ==
    \E kv \in updateKV(Data, newPath) :
      LET r == SetTotalPages(Page, Len(kv))
      IN  /\ Path' = newPath
          /\ CurrC' = CurrC
          /\ CurrKV' = kv
          /\ Page' = r.page
          /\ IF r.panic THEN Crash("integer divide by zero") ELSE Goto("view")

\* the end of the enter and x cases: the cursor goes home, the rows are
\* rebuilt from the new path and the page count is set from them
Rebuild(newPath) ==
    \E kv \in updateKV(Data, newPath) :
      LET r == SetTotalPages(Page, Len(kv))
      IN  /\ Path' = newPath
          /\ CurrC' = HomeCursor
          /\ CurrKV' = kv
          /\ Page' = r.page
          /\ IF r.panic THEN Crash("integer divide by zero") ELSE Goto("view")

\* case "enter"
Enter ==
    IF CanDescend(CurrC)
    THEN /\ Deliver("descend")
         /\ snap' = [Path |-> Path, CurrKV |-> CurrKV]
         /\ UNCHANGED win
         /\ IF RowInRange
            THEN Rebuild(PushKey(Path, CurrRow.Key))
            ELSE /\ Crash("index out of range")
                 /\ UNCHANGED <<CurrC, CurrKV, Path, Page>>
    ELSE /\ Deliver("enter")
         /\ Goto("view")
         /\ snap' = NoSnap
         /\ UNCHANGED <<CurrC, CurrKV, Path, Page, win>>

\* case "x"
Back ==
    /\ Deliver(IF lastEv = "descend" THEN "ascend_after_descend" ELSE "back")
    /\ snap' = IF lastEv = "descend" THEN snap ELSE NoSnap
    /\ UNCHANGED win
    /\ Rebuild(PopKey(Path))

Next ==
    \/ Start
    \/ View
    \/ Resize
    \/ Quit
    \/ Up
    \/ Down
    \/ Left
    \/ Right
    \/ Enter
    \/ Back

Spec == Init /\ [][Next]_vars

----------------------------------------------------------------------------
(* Vocabulary of the properties *)

\* the entry of a collection under a key, by direct lookup in the document
Missing == [GoNil EXCEPT !.t = "missing"]
IsCollection(v) == v.t \in {"map", "slice"}
EntryKeys(v) ==
    IF v.t = "map" THEN {v.keys[i] : i \in 1..Len(v.keys)}
    ELSE IF v.t = "slice" THEN {FormatInt(i - 1) : i \in 1..Len(v.vals)}
    ELSE {}
Child(v, k) ==
    IF v.t = "map" /\ k \in EntryKeys(v)
    THEN v.vals[CHOOSE i \in 1..Len(v.keys) : v.keys[i] = k]
    ELSE IF v.t = "slice" /\ k \in EntryKeys(v)
    THEN v.vals[CHOOSE i \in 1..Len(v.vals) : FormatInt(i - 1) = k]
    ELSE Missing

\* resolving a path against a value by repeated key lookup
RECURSIVE Resolve(_, _)
Resolve(v, path) ==
    IF path = <<>> THEN v ELSE Resolve(Child(v, Head(path)), Tail(path))

\* a row is expandable iff its rendered value is "{}" or "[]"
Expandable(row) == row.Value \in {"{}", "[]"}

\* a render has completed and no message has been handled since
Rendered == ~isNil /\ pc = "update"

----------------------------------------------------------------------------
(* Properties *)

\* C1: in every state of a constructed model the cursor row is a row of the
\* list, 0 <= RowNo < len(CurrKV), and RowNo = 0 when the list is empty.
CursorRowInBounds ==
    ~isNil =>
        IF Len(CurrKV) > 0
        THEN 0 <= CurrC.RowNo /\ CurrC.RowNo < Len(CurrKV)
        ELSE CurrC.RowNo = 0

\* C1 witness: down has been pressed on the last of several rows
CursorAtLastRowAfterDown ==
    /\ lastEv = "down"
    /\ Len(CurrKV) >= 2
    /\ CurrC.RowNo = Len(CurrKV) - 1

\* C2: after every render of a non-empty list with a page size of at least
\* one, the row under the cursor lies inside the displayed window,
\* start <= RowNo < end.
CursorInsideWindow ==
    (Rendered /\ Len(CurrKV) > 0 /\ Page.PerPage >= 1) =>
        (win.start <= CurrC.RowNo /\ CurrC.RowNo < win.end)

\* C3: the slice bounds of every render that follows an enter or an x, with
\* a page size of at least one, satisfy 0 <= start <= end <= len(CurrKV).
SliceBoundsWithinRows ==
    (/\ ~isNil
     /\ pc = "update" \/ fault = "slice bounds out of range"
     /\ lastEv \in {"descend", "back", "ascend_after_descend"}
     /\ Page.PerPage >= 1) =>
        SliceOk(win, Len(CurrKV))

\* C4: x pressed right after an enabled enter restores the path and the row
\* list (same rows, same order) of before the enter, with the cursor on the
\* key of row 0.
AscendUndoesDescend ==
    lastEv = "ascend_after_descend" =>
        /\ Path = snap.Path
        /\ CurrKV = snap.CurrKV
        /\ CurrC.RowNo = 0
        /\ CurrC.IsKey

\* C5: the path always resolves, by repeated key lookup from the root, to an
\* object or an array.
PathResolvesToCollection ==
    ~isNil => IsCollection(Resolve(Data, Path))

\* C6: the row list has exactly one row per entry of the value the path
\* resolves to, carrying that entry's key and rendered value, and is empty
\* when the path does not resolve to a collection.
RowsAreProjectionOfPath ==
    ~isNil =>
        LET v == Resolve(Data, Path)
        IN  IF IsCollection(v)
            THEN /\ Len(CurrKV) = Cardinality(EntryKeys(v))
                 /\ \A k \in EntryKeys(v) :
                      \E i \in 1..Len(CurrKV) :
                        CurrKV[i] = [Key |-> k, Value |-> getVal(Child(v, k))]
            ELSE CurrKV = <<>>

\* C6 witness: a descend has rebuilt a list of several rows below the root
RowsRebuiltBelowRoot ==
    /\ lastEv = "descend"
    /\ Len(Path) = 1
    /\ Len(CurrKV) >= 2

\* C7: once a descend has produced an empty row list, no key event aborts the
\* program with an out-of-range row access, and RowNo stays 0.
EmptyListStaysInteractive ==
    (~isNil /\ Path # <<>> /\ CurrKV = <<>>) =>
        (fault # "index out of range" /\ CurrC.RowNo = 0)

\* C8: when loading fails or the top-level value is a scalar or an empty
\* collection, no method (Init, Update, View) is ever invoked on the model
\* and the program does not fail at run time.
NoSessionForUnbrowsableInput ==
    (\/ ~stdin.wellFormed
     \/ stdin.json.t \notin {"object", "array"}
     \/ Len(stdin.json.vals) = 0) =>
        (calls = {} /\ pc # "panic")

\* C9: with a non-empty row list, IsEnd holds exactly when the cursor is on
\* a value (IsKey false) and the row under it is not expandable.
IsEndIffOnTerminalValue ==
    (~isNil /\ RowInRange) =>
        (CurrC.IsEnd <=> (~CurrC.IsKey /\ ~Expandable(CurrRow)))

\* C9 witness: right has moved the cursor onto a value that is an end value
CursorOnTerminalValue ==
    /\ lastEv = "right"
    /\ RowInRange
    /\ ~CurrC.IsKey
    /\ CurrC.IsEnd

\* C10: when the path resolves to an array, row i (from 0) has key str(i) and
\* renders element i.
ArrayRowsInSequenceOrder ==
    (~isNil /\ Resolve(Data, Path).t = "slice") =>
        LET v == Resolve(Data, Path)
        IN  /\ Len(CurrKV) = Len(v.vals)
            /\ \A i \in 1..Len(CurrKV) :
                 CurrKV[i] = [Key |-> FormatInt(i - 1), Value |-> getVal(v.vals[i])]

\* the value in view: what the path resolves to
InView == Resolve(Data, Path)

\* the keys of the rows
RowKeys == {CurrKV[i].Key : i \in 1..Len(CurrKV)}

\* C11: when the value in view is a non-empty object or array, the row list
\* has as many rows as the value has entries and the set of row keys is the
\* set of entry keys, at construction and after every rebuild.
RowsCoverEntries ==
    (~isNil /\ IsCollection(InView) /\ Len(InView.vals) > 0) =>
        /\ Len(CurrKV) = Len(InView.vals)
        /\ RowKeys = EntryKeys(InView)

\* C11 witness: an enter has rebuilt the rows of a three-element collection
ThreeRowsAfterDescend ==
    /\ lastEv = "descend"
    /\ IsCollection(InView)
    /\ Len(InView.vals) = 3
    /\ Len(CurrKV) = 3

\* C12: a row whose entry is a whole JSON number shows its decimal digits
\* with no fractional part, and is not expandable.
WholeNumbersRenderAsDigits ==
    ~isNil =>
        \A i \in 1..Len(CurrKV) :
          LET child == Child(InView, CurrKV[i].Key)
          IN  child.t \in {"float64", "int"} =>
                /\ CurrKV[i].Value = FormatInt(child.num)
                /\ ~Expandable(CurrKV[i])

\* Update handles the message ev in this step
Handled(ev) == pc = "update" /\ lastEv' = ev

\* the cursor on the key of row r, not at an end, pointing right
OnKeyOfRow(c, r) ==
    c = [RowNo |-> r, IsKey |-> TRUE, IsEnd |-> FALSE, CursorDisplay |-> RightGlyph]

\* the rows of a list, without their order
RowSet(kv) == {kv[i] : i \in 1..Len(kv)}

UpAtFirstRow == Handled("up") /\ CurrC.RowNo = 0
DownAtLastRow == Handled("down") /\ CurrC.RowNo = Len(CurrKV) - 1

\* C13 as stated: up on row 0 and down on the last row change nothing of
\* Path, the rows and the cursor, whatever the focus was.
EdgeMoveChangesNothing ==
    [][(UpAtFirstRow \/ DownAtLastRow) => UNCHANGED <<Path, CurrKV, CurrC>>]_vars

\* C13 as amended: up on row 0 and down on the last row leave Path, the rows
\* and RowNo unchanged and put the cursor on the key (IsKey, not IsEnd, glyph
\* pointing right); the cursor is unchanged when it was on the key already.
EdgeMoveKeepsRowAndFocusesKey ==
    [][(UpAtFirstRow \/ DownAtLastRow) =>
          /\ UNCHANGED <<Path, CurrKV>>
          /\ OnKeyOfRow(CurrC', CurrC.RowNo)
          /\ (CurrC.IsKey => CurrC' = CurrC)]_vars

\* C13 witness: up was handled on row 0 while the cursor was on the value
UpHandledOnFirstRowFromValue ==
    /\ lastEv = "up"
    /\ prev.CurrC.RowNo = 0
    /\ ~prev.CurrC.IsKey
    /\ CurrC.IsKey

BackHandled == Handled("back") \/ Handled("ascend_after_descend")

\* C14 as stated: x with an empty Path changes nothing of Path, the rows
\* (compared here without their order), RowNo and the focus.
BackAtRootChangesNothing ==
    [][(BackHandled /\ Path = <<>>) =>
          /\ Path' = Path
          /\ RowSet(CurrKV') = RowSet(CurrKV)
          /\ CurrC'.RowNo = CurrC.RowNo
          /\ CurrC'.IsKey = CurrC.IsKey]_vars

\* C14 as amended: every x, with a key to pop or not, puts the cursor on
\* the key of row 0; with an empty Path the Path stays empty and the rows
\* are rebuilt from the root: the same rows, in an order that may differ.
BackAlwaysResetsCursor ==
    [][BackHandled =>
          /\ OnKeyOfRow(CurrC', 0)
          /\ Path = <<>> =>
               /\ Path' = <<>>
               /\ Len(CurrKV') = Len(CurrKV)
               /\ RowSet(CurrKV') = RowSet(CurrKV)]_vars

\* C14 witness: x was handled at the root with the cursor below row 0
BackHandledAtRootBelowFirstRow ==
    /\ lastEv = "back"
    /\ prev.Path = <<>>
    /\ prev.CurrC.RowNo >= 1
    /\ CurrC.RowNo = 0

\* C15: enter changes Path, the rows or the cursor only when the cursor is
\* on a value that is not an end value; then Path grows by exactly the key
\* of the row under the cursor and the cursor goes to the key of row 0.
\* Otherwise Path, the rows and the cursor are unchanged.
EnterDescendsOnlyFromOpenValue ==
    [][(Handled("enter") \/ Handled("descend")) =>
          IF ~CurrC.IsKey /\ ~CurrC.IsEnd
          THEN /\ Len(Path') = Len(Path) + 1
               /\ SubSeq(Path', 1, Len(Path)) = Path
               /\ Path'[Len(Path')] = CurrKV[CurrC.RowNo + 1].Key
               /\ OnKeyOfRow(CurrC', 0)
          ELSE UNCHANGED <<Path, CurrKV, CurrC>>]_vars

\* C15 witness: an enter from the value of a row below row 0 has descended
DescendedFromLowerRow ==
    /\ lastEv = "descend"
    /\ prev.Path = <<>>
    /\ ~prev.CurrC.IsKey
    /\ ~prev.CurrC.IsEnd
    /\ prev.CurrC.RowNo >= 1
    /\ Len(Path) = 1

\* C16: every step that changes RowNo leaves the cursor on a key, not at
\* an end.
RowChangeFocusesKey ==
    [][CurrC'.RowNo # CurrC.RowNo => (CurrC'.IsKey /\ ~CurrC'.IsEnd)]_vars

\* C16 witness: down has moved the cursor off a row whose value had the focus
MovedDownFromValue ==
    /\ lastEv = "down"
    /\ ~prev.CurrC.IsKey
    /\ CurrC.RowNo = prev.CurrC.RowNo + 1

\* C17: the glyph points left exactly when the cursor is on a value that is
\* an end value (IsKey false, IsEnd true); in every other state it points
\* right.
GlyphLeftIffAtEnd ==
    ~isNil =>
        /\ CurrC.CursorDisplay \in {LeftGlyph, RightGlyph}
        /\ CurrC.CursorDisplay = LeftGlyph <=> (~CurrC.IsKey /\ CurrC.IsEnd)

\* C17 witness: right has turned the glyph to the left on an end value
GlyphTurnedLeft ==
    /\ lastEv = "right"
    /\ prev.CurrC.CursorDisplay = RightGlyph
    /\ CurrC.CursorDisplay = LeftGlyph

\* C18: while the view is below the root the program is still running, so
\* that x can be pressed until Path is empty.
BackRemainsPossibleBelowRoot ==
    (~isNil /\ Path # <<>>) => pc # "panic"

PathOrRowsChange == Path' # Path \/ CurrKV' # CurrKV

\* C19: Path and the rows change only in an enter handled with the cursor
\* on a value that is not an end value, or in an x; up, down, left, right,
\* resize and View leave them alone, and View leaves the cursor alone.
OnlyEnterAndBackChangeRows ==
    [][/\ PathOrRowsChange =>
            \/ Handled("descend") /\ ~CurrC.IsKey /\ ~CurrC.IsEnd
            \/ BackHandled
       /\ pc = "view" => CurrC' = CurrC]_vars

\* C19 witness: below the root, a right has been handled and rendered
RenderedAfterRightBelowRoot ==
    /\ Rendered
    /\ lastEv = "right"
    /\ Path # <<>>
    /\ Len(CurrKV) >= 1
    /\ ~CurrC.IsKey

\* C20: after every resize the page size is at least 1, and no later enter
\* or x fails on a division by zero.
PageSizeStaysPositive ==
    ~isNil =>
        /\ Page.PerPage >= 1
        /\ fault # "integer divide by zero"

============================================================================
